---- MODULE Spec2Model ----
(***************************************************************************)
(* Model of with-refresh-token (src/src/index.ts): the cookie propagator   *)
(* applyCookiesOnNextResponse and the middleware composer getMiddleware.   *)
(*                                                                         *)
(* A Headers object is a function from header names to values.  Every      *)
(* value is a sequence: the cookie header is the sequence of its           *)
(* <<name, raw value>> pairs, set-cookie is the sequence of its cookie     *)
(* records, x-middleware-override-headers is the sequence of the joined    *)
(* keys, and any other header is a one-element sequence holding its text.  *)
(***************************************************************************)
EXTENDS Integers, Sequences, FiniteSets, TLC

\* Number of request-handler invocations that may be in flight together.
NumReqs == 2

Reqs == 1..NumReqs

-----------------------------------------------------------------------------
(* Headers *)

EmptyHeaders == [k \in {} |-> <<>>]

HeadersSet(h, key, value) ==
    [k \in (DOMAIN h) \cup {key} |-> IF k = key THEN value ELSE h[k]]

HeadersGet(h, key) == IF key \in DOMAIN h THEN h[key] ELSE <<>>

OverrideHeaders == "x-middleware-override-headers"
RequestPrefix == "x-middleware-request-"

StartsWith(s, p) == Len(s) >= Len(p) /\ SubSeq(s, 1, Len(p)) = p

\* The request header names of the model, in the (sorted) order in which a
\* Headers object iterates them.
HeaderOrder == <<"accept", "cookie", "x-middleware-request-x">>

SortedKeys(h) == SelectSeq(HeaderOrder, LAMBDA k : k \in DOMAIN h)

-----------------------------------------------------------------------------
(* Cookie value encoding: encodeURIComponent / decodeURIComponent on the   *)
(* values of the model.  "%" is a malformed escape: decoding it throws.    *)

Decodable(raw) == raw # "%"

Decode(raw) == IF raw = "a%20b" THEN "a b" ELSE raw

Encode(v) == IF v = "a b" THEN "a%20b" ELSE v

\* A cookie jar is a Map: a sequence of entries with distinct names, in
\* insertion order.  Map.set replaces in place or appends.
MapIndex(m, name) ==
    IF \E i \in 1..Len(m) : m[i].name = name
    THEN CHOOSE i \in 1..Len(m) : m[i].name = name
    ELSE 0

MapSet(m, entry) ==
    IF MapIndex(m, entry.name) = 0
    THEN Append(m, entry)
    ELSE [m EXCEPT ![MapIndex(m, entry.name)] = entry]

MapHas(m, name) == MapIndex(m, name) # 0

MapGet(m, name) == m[MapIndex(m, name)].value

\* new RequestCookies(headers): parse the cookie header; a pair whose value
\* does not decode is skipped.
RECURSIVE ParseCookie(_)
ParseCookie(pairs) ==
    IF pairs = <<>> THEN <<>>
    ELSE LET n == Len(pairs)
             init == ParseCookie(SubSeq(pairs, 1, n - 1))
             p == pairs[n]
         IN IF Decodable(p[2])
            THEN MapSet(init, [name |-> p[1], value |-> Decode(p[2])])
            ELSE init

RequestCookies(h) == ParseCookie(HeadersGet(h, "cookie"))

StringifyRequestCookies(m) ==
    [i \in 1..Len(m) |-> <<m[i].name, Encode(m[i].value)>>]

\* Variant: the cookie header is overwritten with the one cookie.
RequestCookiesSetAlone(h, cookie) ==
    HeadersSet(h, "cookie", << <<cookie.name, Encode(cookie.value)>> >>)

\* RequestCookies.set(cookie): keeps name and value only and rewrites the
\* cookie header of the Headers object the jar was built on.
RequestCookiesSet(h, cookie) ==
    HeadersSet(h, "cookie",
        StringifyRequestCookies(
            MapSet(RequestCookies(h),
                   [name |-> cookie.name, value |-> cookie.value])))

\* new ResponseCookies(headers).getAll(): the Set-Cookie entries as a Map
\* keyed by name, values decoded.
RECURSIVE ParseSetCookie(_)
ParseSetCookie(entries) ==
    IF entries = <<>> THEN <<>>
    ELSE LET n == Len(entries)
             e == entries[n]
         IN MapSet(ParseSetCookie(SubSeq(entries, 1, n - 1)),
                   [e EXCEPT !.value = Decode(e.value)])

ResponseCookiesGetAll(h) == ParseSetCookie(HeadersGet(h, "set-cookie"))

StringifySetCookie(m) ==
    [i \in 1..Len(m) |-> [m[i] EXCEPT !.value = Encode(m[i].value)]]

\* res.cookies.set(cookie): Map.set, then every Set-Cookie entry is rewritten.
ResponseCookiesSet(h, cookie) ==
    HeadersSet(h, "set-cookie",
        StringifySetCookie(MapSet(ResponseCookiesGetAll(h), cookie)))

Cookie(name, value, maxAge) ==
    [name |-> name, value |-> value, maxAge |-> maxAge, path |-> "/"]

-----------------------------------------------------------------------------
(* applyCookiesOnNextResponse *)

\* outgoingCookies.getAll().forEach((cookie) => incomingCookies.set(cookie))
RECURSIVE SetAll(_, _)
SetAll(h, cookies) ==
    IF cookies = <<>> THEN h
    ELSE SetAll(RequestCookiesSet(h, Head(cookies)), Tail(cookies))

\* incomingHeaders after the forEach: a copy of the request's headers with
\* the response's cookies merged into its cookie header.
IncomingHeaders(copy, resHeaders) ==
    SetAll(copy, ResponseCookiesGetAll(resHeaders))

\* NextResponse.next({ request: { headers } }).headers
NextResponseNextHeaders(incoming) ==
    [k \in {"x-middleware-next", OverrideHeaders}
           \cup {RequestPrefix \o n : n \in DOMAIN incoming} |->
        IF k = "x-middleware-next" THEN <<"1">>
        ELSE IF k = OverrideHeaders THEN SortedKeys(incoming)
        ELSE incoming[CHOOSE n \in DOMAIN incoming : RequestPrefix \o n = k]]

\* Variant: no filter, every header of the continue response is copied.
CopiedKeyAny(key) == TRUE

CopiedKey(key) == key = OverrideHeaders \/ StartsWith(key, RequestPrefix)

\* Variant: res.headers.append(key, value) in place of set.
CopyRoutingHeadersAppend(resHeaders, next) ==
    [k \in (DOMAIN resHeaders) \cup {n \in DOMAIN next : CopiedKey(n)} |->
        IF k \in DOMAIN next /\ CopiedKey(k)
        THEN HeadersGet(resHeaders, k) \o next[k]
        ELSE resHeaders[k]]

\* nextResponseHeaders.forEach: res.headers.set(key, value) for the keys
\* that pass the filter.
CopyRoutingHeaders(resHeaders, next) ==
    [k \in (DOMAIN resHeaders) \cup {n \in DOMAIN next : CopiedKey(n)} |->
        IF k \in DOMAIN next /\ CopiedKey(k) THEN next[k] ELSE resHeaders[k]]

\* const incomingHeaders = new Headers(req.headers): a copy
HeadersCopy(h) == h

\* Variant: the cookie jar is built on req.headers itself, not on a copy.
applyCookiesOnRequestHeaders(reqHeaders, resHeaders) ==
    LET incoming == IncomingHeaders(reqHeaders, resHeaders)
    IN [req |-> incoming,
        incoming |-> incoming,
        res |-> CopyRoutingHeaders(resHeaders, NextResponseNextHeaders(incoming))]

\* The request's headers, the merged copy (incomingHeaders) and the response's
\* headers when the function returns.
applyCookiesOnNextResponse(reqHeaders, resHeaders) ==
    LET incoming == IncomingHeaders(HeadersCopy(reqHeaders), resHeaders)
    IN [req |-> reqHeaders,
        incoming |-> incoming,
        res |-> CopyRoutingHeaders(resHeaders, NextResponseNextHeaders(incoming))]

\* NextResponse.next().headers
PassThroughHeaders == [k \in {"x-middleware-next"} |-> <<"1">>]

-----------------------------------------------------------------------------
(* getMiddleware: the state of the request handler's invocations *)

VARIABLES
    cfg,     \* the options and middlewareFn the handler was built with
    reqH,    \* reqH[r]: the headers request r arrived with
    pc,      \* pc[r]: "idle", "awaiting" (suspended at the await), "returned", "threw"
    resOf,   \* resOf[r]: the object bound to `res` in invocation r
    heap,    \* the response objects that exist: object |-> its headers
    log,     \* log[r]: the calls invocation r has made, in order
    out,     \* out[r]: what invocation r returned or threw
    ch,      \* ch[r]: what the callbacks of invocation r did (the environment)
    aPhase,  \* applyCookiesOnNextResponse called directly: "off", "input", "once", "twice"
    aIn,     \* ... the headers of the request and of the response it was given
    aReq,    \* ... the request's headers now
    aRes,    \* ... the response's headers now
    aInc     \* ... incomingHeaders at the end of the last call

vars == <<cfg, reqH, pc, resOf, heap, log, out, ch, aPhase, aIn, aReq, aRes, aInc>>
applyVars == <<aPhase, aIn, aReq, aRes, aInc>>

NoObj == <<0, "none">>
NoErr == "-"
NoTP == [accessToken |-> "-", refreshToken |-> "-"]

TokenPairs == {[accessToken |-> "AT2", refreshToken |-> "RT2"],
               [accessToken |-> "a b", refreshToken |-> "RT3"]}

\* 60 * 60 * 24 * 7, the max-age of the documented onSuccess
SevenDays == 604800

\* What the caller-supplied callbacks may do when called.
ShouldRefreshOutcomes == {"true", "false", "throw"}
FetchCallOutcomes == {"promise", "throw"}
FetchSettleOutcomes == {"reject", "resolve"}
OnSuccessBehaviours == {"setBoth", "noop", "setAccessThenThrow"}
OnErrorBehaviours == {"nothing", "newResponse", "sameRes", "throw"}
MiddlewareBehaviours == {"returnRes", "setCookie", "newResponse"}

\* The headers a request may arrive with.
ReqHeaderChoices ==
    { EmptyHeaders,
      [k \in {"accept", "cookie"} |->
          IF k = "accept" THEN <<"text/html">>
          ELSE << <<"access-token", "AT1">>, <<"a", "1">> >>] }

\* Invocations are interchangeable, so the requests that carry headers are
\* taken to be the first k of them.
ReqHeaderAssignments ==
    {f \in [Reqs -> ReqHeaderChoices] :
        \A r \in Reqs : r > 1 /\ f[r] # EmptyHeaders => f[r - 1] # EmptyHeaders}

RedirectHeaders == [k \in {"location"} |-> <<"/login">>]

NoChoice ==
    [sr |-> "-", fc |-> "-", fs |-> "-", tp |-> NoTP, err |-> NoErr,
     os |-> "-", oe |-> "-", mw |-> "-"]

NoOut == [kind |-> "none", val |-> NoObj, err |-> NoErr]

HeapPut(h, obj, headers) ==
    [o \in (DOMAIN h) \cup {obj} |-> IF o = obj THEN headers ELSE h[o]]

EmptyHeap == [o \in {} |-> EmptyHeaders]

\* One call made by an invocation: the function, the response object passed,
\* the token pair or error passed and, for the next-stage handler, the headers
\* the response had when it was called.
Ev(fn, res, tp, err, hdrs) ==
    [fn |-> fn, res |-> res, tp |-> tp, err |-> err, hdrs |-> hdrs]

LogCall(s, e) == [s EXCEPT !.log = Append(@, e)]

Return(s, obj) ==
    [s EXCEPT !.out = [kind |-> "returned", val |-> obj, err |-> NoErr]]

Throw(s, err) ==
    [s EXCEPT !.out = [kind |-> "threw", val |-> NoObj, err |-> err]]

\* Variant: one response object created once and shared by every invocation.
NextResponseShared(r) == <<1, "next">>

\* const res = NextResponse.next(): a new object in every invocation.
NextResponseNext(r) == <<r, "next">>

\* Variant: the next-stage handler is never called.
ForwardSkipsHandler(s, c, r, res, mwb) == Return(s, res)

\* Variant: the next-stage handler is called and its result dropped.
ForwardDropsResult(s, c, r, res, mwb) ==
    IF c.middlewareFn
    THEN LET s1 == LogCall([s EXCEPT !.ch.mw = mwb],
                           Ev("middlewareFn", res, NoTP, NoErr, s.heap[res]))
         IN CASE mwb = "returnRes" -> Return(s1, res)
              [] mwb = "setCookie" ->
                   Return([s1 EXCEPT !.heap[res] =
                               ResponseCookiesSet(@, Cookie("mw", "1", 0))], res)
              [] mwb = "newResponse" ->
                   Return([s1 EXCEPT !.heap =
                               HeapPut(@, <<r, "middleware">>, RedirectHeaders)],
                          res)
    ELSE Return(s, res)

\* return middlewareFn?.(req, res, event) ?? res
Forward(s, c, r, res, mwb) ==
    IF c.middlewareFn
    THEN LET s1 == LogCall([s EXCEPT !.ch.mw = mwb],
                           Ev("middlewareFn", res, NoTP, NoErr, s.heap[res]))
         IN CASE mwb = "returnRes" -> Return(s1, res)
              [] mwb = "setCookie" ->
                   Return([s1 EXCEPT !.heap[res] =
                               ResponseCookiesSet(@, Cookie("mw", "1", 0))], res)
              [] mwb = "newResponse" ->
                   Return([s1 EXCEPT !.heap =
                               HeapPut(@, <<r, "middleware">>, RedirectHeaders)],
                          <<r, "middleware">>)
    ELSE Return(s, res)

\* Variant: the next-stage handler is called first, the cookies are
\* propagated afterwards.
PropagateAfterForward(s, c, r, res, mwb) ==
    LET f == Forward(s, c, r, res, mwb)
        a == applyCookiesOnNextResponse(f.req, f.heap[res])
    IN LogCall([f EXCEPT !.req = a.req, !.heap[res] = a.res],
               Ev("applyCookiesOnNextResponse", res, NoTP, NoErr, EmptyHeaders))

\* applyCookiesOnNextResponse(req, res); return middlewareFn?.(...) ?? res
PropagateAndForward(s, c, r, res, mwb) ==
    LET a == applyCookiesOnNextResponse(s.req, s.heap[res])
    IN Forward(LogCall([s EXCEPT !.req = a.req, !.heap[res] = a.res],
                       Ev("applyCookiesOnNextResponse", res, NoTP, NoErr,
                          EmptyHeaders)),
               c, r, res, mwb)

\* Variant: onError is called inside a try of its own and its exception is
\* dropped.
CatchBlockSwallowsOnErrorThrow(s, c, r, res, error, oeb, mwb) ==
    IF c.onError
    THEN LET s1 == LogCall([s EXCEPT !.ch.oe = oeb],
                           Ev("onError", res, NoTP, error, EmptyHeaders))
         IN CASE oeb = "newResponse" ->
                   Return([s1 EXCEPT !.heap =
                               HeapPut(@, <<r, "onError">>, RedirectHeaders)],
                          <<r, "onError">>)
              [] oeb = "sameRes" -> Return(s1, res)
              [] OTHER -> PropagateAndForward(s1, c, r, res, mwb)
    ELSE PropagateAndForward(s, c, r, res, mwb)

\* Variant: the value onError returns is ignored.
CatchBlockIgnoresNext(s, c, r, res, error, oeb, mwb) ==
    IF c.onError
    THEN LET s1 == LogCall([s EXCEPT !.ch.oe = oeb],
                           Ev("onError", res, NoTP, error, EmptyHeaders))
         IN CASE oeb = "throw" -> Throw(s1, "onErrorFailed")
              [] oeb = "newResponse" ->
                   PropagateAndForward(
                       [s1 EXCEPT !.heap =
                            HeapPut(@, <<r, "onError">>, RedirectHeaders)],
                       c, r, res, mwb)
              [] OTHER -> PropagateAndForward(s1, c, r, res, mwb)
    ELSE PropagateAndForward(s, c, r, res, mwb)

\* Variant: onError is called without the optional chaining, so a missing
\* onError throws out of the catch block.
CatchBlockRequiresOnError(s, c, r, res, error, oeb, mwb) ==
    IF c.onError
    THEN LET s1 == LogCall([s EXCEPT !.ch.oe = oeb],
                           Ev("onError", res, NoTP, error, EmptyHeaders))
         IN CASE oeb = "throw" -> Throw(s1, "onErrorFailed")
              [] oeb = "newResponse" ->
                   Return([s1 EXCEPT !.heap =
                               HeapPut(@, <<r, "onError">>, RedirectHeaders)],
                          <<r, "onError">>)
              [] oeb = "sameRes" -> Return(s1, res)
              [] oeb = "nothing" ->
                   PropagateAndForward(s1, c, r, res, mwb)
    ELSE Throw(s, "onErrorIsNotAFunction")

\* catch (error) { const next = onError?.(req, res, error); if (next) return next; }
CatchBlock(s, c, r, res, error, oeb, mwb) ==
    IF c.onError
    THEN LET s1 == LogCall([s EXCEPT !.ch.oe = oeb],
                           Ev("onError", res, NoTP, error, EmptyHeaders))
         IN CASE oeb = "throw" -> Throw(s1, "onErrorFailed")
              [] oeb = "newResponse" ->
                   Return([s1 EXCEPT !.heap =
                               HeapPut(@, <<r, "onError">>, RedirectHeaders)],
                          <<r, "onError">>)
              [] oeb = "sameRes" -> Return(s1, res)
              [] oeb = "nothing" ->
                   PropagateAndForward(s1, c, r, res, mwb)
    ELSE PropagateAndForward(s, c, r, res, mwb)

\* onSuccess(res, tokenPair), inside the try block
CallOnSuccess(s, c, r, res, tp, osb, oeb, mwb) ==
    LET s1 == LogCall([s EXCEPT !.ch.os = osb],
                      Ev("onSuccess", res, tp, NoErr, EmptyHeaders))
        access == Cookie("access-token", tp.accessToken, SevenDays)
        refresh == Cookie("refresh-token", tp.refreshToken, SevenDays)
    IN CASE osb = "noop" ->
              PropagateAndForward(s1, c, r, res, mwb)
         [] osb = "setBoth" ->
              PropagateAndForward(
                  [s1 EXCEPT !.heap[res] =
                       ResponseCookiesSet(ResponseCookiesSet(@, access), refresh)],
                  c, r, res, mwb)
         [] osb = "setAccessThenThrow" ->
              CatchBlock([s1 EXCEPT !.heap[res] = ResponseCookiesSet(@, access)],
                         c, r, res, "onSuccessFailed", oeb, mwb)

\* Variant: shouldRefresh(req) is evaluated inside the try block.
Segment1GuardsShouldRefresh(h, c, r, reqHeaders, sr, fc, oeb, mwb) ==
    LET res == NextResponseNext(r)
        s0 == [req |-> reqHeaders, heap |-> HeapPut(h, res, PassThroughHeaders),
               log |-> <<>>, out |-> NoOut, ch |-> [NoChoice EXCEPT !.sr = sr]]
        s1 == LogCall(s0, Ev("shouldRefresh", NoObj, NoTP, NoErr, EmptyHeaders))
        s2 == LogCall([s1 EXCEPT !.ch.fc = fc],
                      Ev("fetchTokenPair", NoObj, NoTP, NoErr, EmptyHeaders))
    IN CASE sr = "throw" ->
              CatchBlock(s1, c, r, res, "shouldRefreshFailed", oeb, mwb)
         [] sr = "false" -> PropagateAndForward(s1, c, r, res, mwb)
         [] sr = "true" /\ fc = "throw" ->
              CatchBlock(s2, c, r, res, "network", oeb, mwb)
         [] sr = "true" /\ fc = "promise" -> s2

\* Variant: applyCookiesOnNextResponse is called inside the if block only.
Segment1SkipsPropagate(h, c, r, reqHeaders, sr, fc, oeb, mwb) ==
    LET res == NextResponseNext(r)
        s0 == [req |-> reqHeaders, heap |-> HeapPut(h, res, PassThroughHeaders),
               log |-> <<>>, out |-> NoOut, ch |-> [NoChoice EXCEPT !.sr = sr]]
        s1 == LogCall(s0, Ev("shouldRefresh", NoObj, NoTP, NoErr, EmptyHeaders))
        s2 == LogCall([s1 EXCEPT !.ch.fc = fc],
                      Ev("fetchTokenPair", NoObj, NoTP, NoErr, EmptyHeaders))
    IN CASE sr = "throw" -> Throw(s1, "shouldRefreshFailed")
         [] sr = "false" -> Forward(s1, c, r, res, mwb)
         [] sr = "true" /\ fc = "throw" ->
              CatchBlock(s2, c, r, res, "network", oeb, mwb)
         [] sr = "true" /\ fc = "promise" -> s2

\* Variant: a refresh already in flight is reused: fetchTokenPair is not
\* called while another invocation awaits its own.
Segment1Dedup(h, c, r, reqHeaders, sr, fc, oeb, mwb) ==
    LET res == NextResponseNext(r)
        s0 == [req |-> reqHeaders, heap |-> HeapPut(h, res, PassThroughHeaders),
               log |-> <<>>, out |-> NoOut, ch |-> [NoChoice EXCEPT !.sr = sr]]
        s1 == LogCall(s0, Ev("shouldRefresh", NoObj, NoTP, NoErr, EmptyHeaders))
        s2 == LogCall([s1 EXCEPT !.ch.fc = fc],
                      Ev("fetchTokenPair", NoObj, NoTP, NoErr, EmptyHeaders))
    IN CASE sr = "throw" -> Throw(s1, "shouldRefreshFailed")
         [] sr = "false" -> PropagateAndForward(s1, c, r, res, mwb)
         [] sr = "true" /\ (\E q \in Reqs \ {r} : pc[q] = "awaiting") ->
              [s1 EXCEPT !.ch.fc = "promise"]
         [] sr = "true" /\ fc = "throw" ->
              CatchBlock(s2, c, r, res, "network", oeb, mwb)
         [] sr = "true" /\ fc = "promise" -> s2

\* The handler from its call to its first suspension or its end.
Segment1(h, c, r, reqHeaders, sr, fc, oeb, mwb) ==
    LET res == NextResponseNext(r)
        s0 == [req |-> reqHeaders, heap |-> HeapPut(h, res, PassThroughHeaders),
               log |-> <<>>, out |-> NoOut, ch |-> [NoChoice EXCEPT !.sr = sr]]
        s1 == LogCall(s0, Ev("shouldRefresh", NoObj, NoTP, NoErr, EmptyHeaders))
        s2 == LogCall([s1 EXCEPT !.ch.fc = fc],
                      Ev("fetchTokenPair", NoObj, NoTP, NoErr, EmptyHeaders))
    IN CASE sr = "throw" -> Throw(s1, "shouldRefreshFailed")
         [] sr = "false" -> PropagateAndForward(s1, c, r, res, mwb)
         [] sr = "true" /\ fc = "throw" ->
              CatchBlock(s2, c, r, res, "network", oeb, mwb)
         [] sr = "true" /\ fc = "promise" -> s2

\* Variant: a rejected fetchTokenPair is called once more before the catch
\* block runs.
Segment2RetriesOnReject(s, c, r, res, fs, tp, osb, oeb, mwb) ==
    CASE fs = "resolve" ->
           CallOnSuccess([s EXCEPT !.ch.fs = fs, !.ch.tp = tp],
                         c, r, res, tp, osb, oeb, mwb)
      [] fs = "reject" ->
           CatchBlock(LogCall([s EXCEPT !.ch.fs = fs, !.ch.err = "network"],
                              Ev("fetchTokenPair", NoObj, NoTP, NoErr,
                                 EmptyHeaders)),
                      c, r, res, "network", oeb, mwb)

\* Variant: `await onSuccess(res, tokenPair)`: the handler suspends a second
\* time, after calling onSuccess.
Segment2AwaitsOnSuccess(s, c, r, res, fs, tp, osb, oeb, mwb) ==
    CASE fs = "resolve" /\ s.ch.os = "-" ->
           LogCall([s EXCEPT !.ch.fs = fs, !.ch.tp = tp, !.ch.os = "noop"],
                   Ev("onSuccess", res, tp, NoErr, EmptyHeaders))
      [] fs = "resolve" /\ s.ch.os # "-" ->
           PropagateAndForward(s, c, r, res, mwb)
      [] fs = "reject" ->
           CatchBlock([s EXCEPT !.ch.fs = fs, !.ch.err = "network"],
                      c, r, res, "network", oeb, mwb)

\* Variant: onSuccess is handed a token pair other than the resolved one.
Segment2StaleTokenPair(s, c, r, res, fs, tp, osb, oeb, mwb) ==
    CASE fs = "resolve" ->
           CallOnSuccess([s EXCEPT !.ch.fs = fs, !.ch.tp = tp],
                         c, r, res, [accessToken |-> "AT2", refreshToken |-> "RT2"],
                         osb, oeb, mwb)
      [] fs = "reject" ->
           CatchBlock([s EXCEPT !.ch.fs = fs, !.ch.err = "network"],
                      c, r, res, "network", oeb, mwb)

\* The handler from the settling of the awaited promise to its end.
Segment2(s, c, r, res, fs, tp, osb, oeb, mwb) ==
    CASE fs = "resolve" ->
           CallOnSuccess([s EXCEPT !.ch.fs = fs, !.ch.tp = tp],
                         c, r, res, tp, osb, oeb, mwb)
      [] fs = "reject" ->
           CatchBlock([s EXCEPT !.ch.fs = fs, !.ch.err = "network"],
                      c, r, res, "network", oeb, mwb)

PcOf(s) == IF s.out.kind = "none" THEN "awaiting" ELSE s.out.kind

Local(r) ==
    [req |-> reqH[r], heap |-> heap, log |-> log[r], out |-> out[r], ch |-> ch[r]]

Commit(r, s) ==
    /\ reqH' = [reqH EXCEPT ![r] = s.req]
    /\ heap' = s.heap
    /\ log' = [log EXCEPT ![r] = s.log]
    /\ out' = [out EXCEPT ![r] = s.out]
    /\ ch' = [ch EXCEPT ![r] = s.ch]
    /\ pc' = [pc EXCEPT ![r] = PcOf(s)]

Init ==
    /\ cfg \in [onError : BOOLEAN, middlewareFn : BOOLEAN]
    /\ reqH \in ReqHeaderAssignments
    /\ pc = [r \in Reqs |-> "idle"]
    /\ resOf = [r \in Reqs |-> NoObj]
    /\ heap = EmptyHeap
    /\ log = [r \in Reqs |-> <<>>]
    /\ out = [r \in Reqs |-> NoOut]
    /\ ch = [r \in Reqs |-> NoChoice]
    /\ aPhase = "off"
    /\ aIn = [req |-> EmptyHeaders, res |-> EmptyHeaders]
    /\ aReq = EmptyHeaders
    /\ aRes = EmptyHeaders
    /\ aInc = EmptyHeaders

\* The behaviours worth enumerating for a callback: all of them where the
\* handler reaches the callback, one where it does not (the choice is then
\* never consulted).
Reached(cond, behaviours, unused) == IF cond THEN behaviours ELSE {unused}

\* The host calls the handler with request r: it runs until it suspends at
\* `await fetchTokenPair(req)` or ends.
Invoke(r) ==
    /\ pc[r] = "idle"
    /\ \E sr \in ShouldRefreshOutcomes :
       \E fc \in Reached(sr = "true", FetchCallOutcomes, "promise") :
       \E oeb \in Reached(cfg.onError /\ sr = "true" /\ fc = "throw",
                          OnErrorBehaviours, "nothing") :
       \E mwb \in Reached(cfg.middlewareFn /\ sr # "throw" /\ oeb = "nothing"
                             /\ ~(sr = "true" /\ fc = "promise"),
                          MiddlewareBehaviours, "returnRes") :
       \E s \in {Segment1(heap, cfg, r, reqH[r], sr, fc, oeb, mwb)} :
          Commit(r, s)
    /\ resOf' = [resOf EXCEPT ![r] = NextResponseNext(r)]
    /\ UNCHANGED <<cfg, applyVars>>

\* The promise invocation r awaits settles: the handler runs to its end.
Settle(r) ==
    /\ pc[r] = "awaiting"
    /\ \E fs \in FetchSettleOutcomes :
       \E tp \in Reached(fs = "resolve", TokenPairs, NoTP) :
       \E osb \in Reached(fs = "resolve", OnSuccessBehaviours, "noop") :
       \E oeb \in Reached(cfg.onError
                             /\ (fs = "reject" \/ osb = "setAccessThenThrow"),
                          OnErrorBehaviours, "nothing") :
       \E mwb \in Reached(cfg.middlewareFn /\ oeb = "nothing",
                          MiddlewareBehaviours, "returnRes") :
       \E s \in {Segment2(Local(r), cfg, r, resOf[r],
                           fs, tp, osb, oeb, mwb)} :
          Commit(r, s)
    /\ UNCHANGED <<cfg, resOf, applyVars>>

Next == \E r \in Reqs : Invoke(r) \/ Settle(r)

Spec == Init /\ [][Next]_vars

\* Once the awaited promise has settled, the event loop runs the rest of the
\* handler.
FairSpec == Spec /\ \A r \in Reqs : WF_vars(Settle(r))

-----------------------------------------------------------------------------
(* applyCookiesOnNextResponse called directly (it is exported), on any       *)
(* request and response                                                      *)

WithHeader(cond, h, key, value) == IF cond THEN HeadersSet(h, key, value) ELSE h

CookieHeaderChoices ==
    { <<>>,
      << <<"a", "1">> >>,
      << <<"a", "1">>, <<"b", "2">> >>,
      << <<"a", "1">>, <<"a", "2">> >>,
      << <<"c", "%">>, <<"access-token", "AT1">> >>,
      << <<"c", "a b">>, <<"d", "a%20b">> >> }

ApplyReqChoices ==
    { WithHeader(ck # <<>>,
          WithHeader(acc,
              WithHeader(spoof, EmptyHeaders, "x-middleware-request-x", <<"y">>),
              "accept", <<"text/html">>),
          "cookie", ck) :
        ck \in CookieHeaderChoices, acc \in BOOLEAN, spoof \in BOOLEAN }

SetCookieChoices ==
    { <<>>,
      << Cookie("a", "9", 0) >>,
      << Cookie("a", "1", 0), Cookie("b", "2", 0) >>,
      << Cookie("a", "1", 0), Cookie("a", "3", 0) >>,
      << Cookie("access-token", "AT2", SevenDays),
         Cookie("refresh-token", "RT2", SevenDays) >>,
      << Cookie("c", "a%20b", 0) >> }

ApplyResChoices ==
    { WithHeader(sc # <<>>,
          WithHeader(custom,
              WithHeader(stale,
                  WithHeader(stale, base, OverrideHeaders, <<"old">>),
                  "x-middleware-request-old", <<"z">>),
              "x-custom", <<"v">>),
          "set-cookie", sc) :
        sc \in SetCookieChoices, custom \in BOOLEAN, stale \in BOOLEAN,
        base \in {PassThroughHeaders, RedirectHeaders} }

InitApply ==
    /\ cfg = [onError |-> FALSE, middlewareFn |-> FALSE]
    /\ reqH = [r \in Reqs |-> EmptyHeaders]
    /\ pc = [r \in Reqs |-> "idle"]
    /\ resOf = [r \in Reqs |-> NoObj]
    /\ heap = EmptyHeap
    /\ log = [r \in Reqs |-> <<>>]
    /\ out = [r \in Reqs |-> NoOut]
    /\ ch = [r \in Reqs |-> NoChoice]
    /\ aPhase = "input"
    /\ aReq \in ApplyReqChoices
    /\ aRes \in ApplyResChoices
    /\ aIn = [req |-> aReq, res |-> aRes]
    /\ aInc = EmptyHeaders

ApplyCall(from, to) ==
    /\ aPhase = from
    /\ aPhase' = to
    /\ \E a \in {applyCookiesOnNextResponse(aReq, aRes)} :
          /\ aReq' = a.req
          /\ aRes' = a.res
          /\ aInc' = a.incoming
    /\ UNCHANGED <<aIn, cfg, reqH, pc, resOf, heap, log, out, ch>>

ApplyOnce == ApplyCall("input", "once")

ApplyAgain == ApplyCall("once", "twice")

NextApply == ApplyOnce \/ ApplyAgain

SpecApply == InitApply /\ [][NextApply]_vars

-----------------------------------------------------------------------------
(* Properties of the request handler *)

Calls(r, fn) == {i \in 1..Len(log[r]) : log[r][i].fn = fn}

Count(r, fn) == Cardinality(Calls(r, fn))

Ended(r) == pc[r] \in {"returned", "threw"}

\* What the next-stage handler returned in invocation r.
MiddlewareResult(r) ==
    IF ch[r].mw = "newResponse" THEN <<r, "middleware">> ELSE resOf[r]

\* What Forward must return in invocation r.
ForwardResult(r) == IF cfg.middlewareFn THEN MiddlewareResult(r) ELSE resOf[r]

FetchFailed(r) == ch[r].fc = "throw" \/ ch[r].fs = "reject"

\* The headers of the response at the moment it is forwarded.
ForwardedHeaders(r) ==
    IF cfg.middlewareFn
    THEN log[r][CHOOSE i \in Calls(r, "middlewareFn") : TRUE].hdrs
    ELSE heap[resOf[r]]

C2_OnSuccessOnce ==
    \A r \in Reqs :
        ch[r].sr = "true" /\ ch[r].fs = "resolve" =>
            /\ Count(r, "onSuccess") = 1
            /\ \A i \in Calls(r, "onSuccess") :
                  /\ log[r][i].res = <<r, "next">>
                  /\ log[r][i].res = resOf[r]
                  /\ log[r][i].tp = ch[r].tp
                  /\ i > 1 /\ log[r][i - 1].fn = "fetchTokenPair"

C2_Witness ==
    \E r \in Reqs :
        /\ ch[r].fs = "resolve"
        /\ ch[r].tp = [accessToken |-> "a b", refreshToken |-> "RT3"]
        /\ \E i \in Calls(r, "onSuccess") : log[r][i].tp = ch[r].tp

\* C3: an exception thrown by onSuccess is not caught by the composer: it
\* propagates to the caller of the request handler.
C3_OnSuccessThrowPropagates ==
    \A r \in Reqs :
        ch[r].os = "setAccessThenThrow" =>
            pc[r] = "threw" /\ out[r].err = "onSuccessFailed"

\* C4: onError is invoked only where fetchTokenPair threw or rejected, with
\* the value fetchTokenPair failed with; no failure of another callback
\* causes onError to be invoked.
C4_OnErrorOnlyForFetch ==
    \A r \in Reqs :
        \A i \in Calls(r, "onError") :
            FetchFailed(r) /\ log[r][i].err = "network"

\* C5: if onError is supplied and returns a response, that exact object is the
\* handler's return value, and neither the Cookie Propagator nor the
\* next-stage handler runs afterwards.
C5_OnErrorShortCircuit ==
    \A r \in Reqs :
        ch[r].oe \in {"newResponse", "sameRes"} =>
            /\ out[r].kind = "returned"
            /\ out[r].val =
                   (IF ch[r].oe = "newResponse" THEN <<r, "onError">> ELSE resOf[r])
            /\ log[r][Len(log[r])].fn = "onError"
            /\ Count(r, "applyCookiesOnNextResponse") = 0
            /\ Count(r, "middlewareFn") = 0

C5_Witness ==
    \E r \in Reqs :
        /\ ch[r].oe = "newResponse"
        /\ out[r].val = <<r, "onError">>
        /\ cfg.middlewareFn

\* C6: when fetchTokenPair rejects or throws and onError is not supplied or
\* returns nothing, no exception escapes the handler, the response is
\* forwarded with the cookie state it had before the refresh attempt (none
\* set), and processing goes through the Cookie Propagator and then the
\* next-stage handler if there is one.
C6_FailedRefreshContinues ==
    \A r \in Reqs :
        FetchFailed(r) /\ (~cfg.onError \/ ch[r].oe = "nothing") =>
            /\ out[r].kind = "returned"
            /\ out[r].val = ForwardResult(r)
            /\ Count(r, "onSuccess") = 0
            /\ ResponseCookiesGetAll(ForwardedHeaders(r)) = <<>>
            /\ "set-cookie" \notin DOMAIN ForwardedHeaders(r)
            /\ Count(r, "applyCookiesOnNextResponse") = 1
            /\ Count(r, "middlewareFn") = (IF cfg.middlewareFn THEN 1 ELSE 0)
            /\ \A i \in Calls(r, "applyCookiesOnNextResponse") :
                  /\ \A j \in Calls(r, "onError") : j < i
                  /\ \A j \in Calls(r, "middlewareFn") : j = i + 1

C6_Witness ==
    \E r, q \in Reqs :
        /\ ch[r].fs = "reject" /\ ~cfg.onError
        /\ pc[r] = "returned"
        /\ ch[q].fc = "throw"
        /\ pc[q] = "returned"

C6_WitnessOnErrorNothing ==
    \E r \in Reqs :
        /\ ch[r].fs = "reject" /\ ch[r].oe = "nothing" /\ cfg.middlewareFn
        /\ pc[r] = "returned"

\* C9: there is no refresh de-duplication: every invocation in which
\* shouldRefresh returned true has made its own fetchTokenPair call, also
\* while another invocation is suspended at its await.
C9_NoDedup ==
    \A r \in Reqs :
        ch[r].sr = "true" =>
            /\ Count(r, "fetchTokenPair") = 1
            /\ ch[r].fc \in FetchCallOutcomes

C9_Witness ==
    \E r, q \in Reqs :
        /\ r # q
        /\ pc[r] = "awaiting" /\ pc[q] = "awaiting"
        /\ Count(r, "fetchTokenPair") = 1 /\ Count(q, "fetchTokenPair") = 1

\* Invocation r run alone, on a heap of its own, with the callbacks behaving
\* as they did in invocation r.
Alone(r) ==
    LET s1 == Segment1(EmptyHeap, cfg, r, reqH[r],
                       ch[r].sr, ch[r].fc, ch[r].oe, ch[r].mw)
    IN IF ch[r].fs = "-" THEN s1
       ELSE Segment2(s1, cfg, r, NextResponseNext(r),
                     ch[r].fs, ch[r].tp, ch[r].os, ch[r].oe, ch[r].mw)

\* C10: invocations share no mutable state: each has its own pass-through
\* response, every callback, the Cookie Propagator and the next-stage handler
\* of an invocation are given that response, and the outcome of an invocation
\* (its calls, its result, the headers of its responses) is what it is when
\* the invocation runs alone, whatever the interleaving.
C10_NoSharedState ==
    \A r \in Reqs :
        pc[r] # "idle" =>
            /\ \A q \in Reqs \ {r} : resOf[q] # resOf[r]
            /\ \A i \in 1..Len(log[r]) :
                  log[r][i].res \in {NoObj, resOf[r]}
            /\ LET a == Alone(r)
               IN /\ log[r] = a.log
                  /\ out[r] = a.out
                  /\ \A o \in DOMAIN a.heap : o \in DOMAIN heap /\ heap[o] = a.heap[o]

C10_Witness ==
    \E r, q \in Reqs :
        /\ r # q
        /\ pc[r] = "awaiting" /\ Ended(q)
        /\ Count(q, "onSuccess") = 1
        /\ "set-cookie" \in DOMAIN heap[resOf[q]]
        /\ "set-cookie" \notin DOMAIN heap[resOf[r]]
        /\ Len(log[q]) > Len(log[r])

-----------------------------------------------------------------------------
(* Properties of applyCookiesOnNextResponse *)

Names(jar) == {jar[i].name : i \in 1..Len(jar)}

\* C7: after applyCookiesOnNextResponse(req, res) the derived request headers
\* carry the request's cookies overridden by the response's: every cookie set
\* on the response is there with the response's value, a cookie only the
\* request has is kept, nothing else is there, and with no cookie on the
\* response the derived headers are the request's.
C7_CookiesMerged ==
    aPhase = "once" =>
        LET reqJar == RequestCookies(aIn.req)
            resJar == ResponseCookiesGetAll(aIn.res)
            jar == RequestCookies(aInc)
        IN /\ Names(jar) = Names(reqJar) \cup Names(resJar)
           /\ \A n \in Names(resJar) : MapGet(jar, n) = MapGet(resJar, n)
           /\ \A n \in Names(reqJar) \ Names(resJar) :
                 MapGet(jar, n) = MapGet(reqJar, n)
           /\ \A k \in (DOMAIN aInc) \cup (DOMAIN aIn.req) :
                 k # "cookie" => k \in DOMAIN aInc /\ k \in DOMAIN aIn.req
                                 /\ aInc[k] = aIn.req[k]
           /\ resJar = <<>> => aInc = aIn.req

C7_Witness ==
    /\ aPhase = "once"
    /\ \E n \in Names(RequestCookies(aIn.req)) \cap Names(ResponseCookiesGetAll(aIn.res)) :
          MapGet(RequestCookies(aIn.req), n) # MapGet(RequestCookies(aInc), n)
    /\ Names(RequestCookies(aIn.req)) \ Names(ResponseCookiesGetAll(aIn.res)) # {}
    /\ "accept" \in DOMAIN aInc

C7_WitnessNoCookies ==
    /\ aPhase = "once"
    /\ ResponseCookiesGetAll(aIn.res) = <<>>
    /\ Len(RequestCookies(aIn.req)) = 2

RoutingName(k) ==
    k = "x-middleware-override-headers"
        \/ (Len(k) >= 21 /\ SubSeq(k, 1, 21) = "x-middleware-request-")

\* C8: applyCookiesOnNextResponse changes on the response only the
\* override-headers marker and headers whose name starts with the
\* request-header-rewrite prefix: every other header, Set-Cookie included, is
\* as it was, and no other header is added.
C8_OnlyRoutingHeadersChange ==
    aPhase = "once" =>
        \A k \in (DOMAIN aRes) \cup (DOMAIN aIn.res) :
            ~RoutingName(k) =>
                k \in DOMAIN aRes /\ k \in DOMAIN aIn.res /\ aRes[k] = aIn.res[k]

C8_Witness ==
    /\ aPhase = "once"
    /\ aRes # aIn.res
    /\ "set-cookie" \in DOMAIN aIn.res
    /\ "x-custom" \in DOMAIN aIn.res
    /\ "x-middleware-next" \notin DOMAIN aIn.res
    /\ "x-middleware-request-cookie" \in DOMAIN aRes

-----------------------------------------------------------------------------
(* Further properties of the request handler *)

TheCall(r, fn) == CHOOSE i \in Calls(r, fn) : TRUE

\* Invocation r got to `return middlewareFn?.(req, res, event) ?? res`.
ReachedForward(r) ==
    pc[r] = "returned" /\ ch[r].oe \notin {"newResponse", "sameRes"}

\* C11: if shouldRefresh throws, the exception propagates to the caller and
\* none of fetchTokenPair, onSuccess, onError, the Cookie Propagator and the
\* next-stage handler is invoked in that invocation.
C11_ShouldRefreshThrowPropagates ==
    \A r \in Reqs :
        ch[r].sr = "throw" =>
            /\ pc[r] = "threw"
            /\ out[r].err = "shouldRefreshFailed"
            /\ Len(log[r]) = 1
            /\ log[r][1].fn = "shouldRefresh"
            /\ heap[resOf[r]] = PassThroughHeaders

C11_Witness ==
    \E r \in Reqs :
        /\ ch[r].sr = "throw"
        /\ pc[r] = "threw"
        /\ cfg.onError /\ cfg.middlewareFn

\* C12: if onError throws, that exception propagates to the caller and
\* neither the Cookie Propagator nor the next-stage handler runs in that
\* invocation.
C12_OnErrorThrowPropagates ==
    \A r \in Reqs :
        ch[r].oe = "throw" =>
            /\ pc[r] = "threw"
            /\ out[r].err = "onErrorFailed"
            /\ log[r][Len(log[r])].fn = "onError"
            /\ Count(r, "applyCookiesOnNextResponse") = 0
            /\ Count(r, "middlewareFn") = 0

C12_Witness ==
    \E r \in Reqs :
        /\ ch[r].oe = "throw"
        /\ ch[r].fs = "reject"
        /\ out[r].err = "onErrorFailed"
        /\ cfg.middlewareFn

\* C13: whenever Forward is reached and a next-stage handler was supplied, it
\* is invoked exactly once, as the last call, with the invocation's own
\* response, and the handler returns exactly what it returned; without a
\* next-stage handler the pass-through response is returned, and with one the
\* pass-through response is returned only as the handler's own result.
C13_ForwardReturnsHandlerResult ==
    \A r \in Reqs :
        ReachedForward(r) =>
            IF cfg.middlewareFn
            THEN /\ Count(r, "middlewareFn") = 1
                 /\ TheCall(r, "middlewareFn") = Len(log[r])
                 /\ log[r][Len(log[r])].res = resOf[r]
                 /\ out[r].val = MiddlewareResult(r)
                 /\ out[r].val = resOf[r] => ch[r].mw \in {"returnRes", "setCookie"}
            ELSE /\ Count(r, "middlewareFn") = 0
                 /\ out[r].val = resOf[r]

C13_Witness ==
    \E r, q \in Reqs :
        /\ ReachedForward(r) /\ ReachedForward(q)
        /\ cfg.middlewareFn
        /\ ch[r].mw = "newResponse" /\ out[r].val = <<r, "middleware">>
        /\ ch[q].mw = "returnRes" /\ out[q].val = resOf[q]

\* C14 as stated: when shouldRefresh returns false the Propagate step is
\* skipped: the Cookie Propagator is not run and the pass-through response's
\* headers are not modified before forwarding.
C14_PropagateSkipped ==
    \A r \in Reqs :
        ch[r].sr = "false" =>
            /\ Count(r, "applyCookiesOnNextResponse") = 0
            /\ ForwardedHeaders(r) = PassThroughHeaders

\* C14 as amended: when shouldRefresh returns false the refresh is skipped but
\* the Propagate step is not: the Cookie Propagator runs once before
\* forwarding, and the forwarded pass-through response carries, besides
\* x-middleware-next, the override-headers marker listing the request's header
\* names and one request-header-rewrite header per request header with the
\* request's own value; it carries no Set-Cookie.
C14_PropagateRunsWithoutRefresh ==
    \A r \in Reqs :
        ch[r].sr = "false" =>
            /\ Count(r, "fetchTokenPair") = 0
            /\ Count(r, "onSuccess") = 0
            /\ Count(r, "onError") = 0
            /\ Count(r, "applyCookiesOnNextResponse") = 1
            /\ TheCall(r, "applyCookiesOnNextResponse") = 2
            /\ \A i \in Calls(r, "middlewareFn") : i = 3
            /\ LET fwd == ForwardedHeaders(r)
               IN /\ DOMAIN fwd =
                        {"x-middleware-next", "x-middleware-override-headers"}
                            \cup {"x-middleware-request-" \o n : n \in DOMAIN reqH[r]}
                  /\ fwd["x-middleware-next"] = <<"1">>
                  /\ fwd["x-middleware-override-headers"] = SortedKeys(reqH[r])
                  /\ \A n \in DOMAIN reqH[r] :
                        fwd["x-middleware-request-" \o n] = reqH[r][n]

C14_Witness ==
    \E r \in Reqs :
        /\ ch[r].sr = "false"
        /\ pc[r] = "returned"
        /\ reqH[r] # EmptyHeaders
        /\ "x-middleware-request-cookie" \in DOMAIN ForwardedHeaders(r)

\* The cookies a downstream stage reads from the rewritten request headers
\* carried by response headers h.
RewrittenCookies(h) == ParseCookie(HeadersGet(h, "x-middleware-request-cookie"))

\* C15: in every invocation that reaches Forward the Cookie Propagator runs
\* exactly once, after the onSuccess and onError calls and right before the
\* next-stage handler, never after it: the next-stage handler sees the rewrite
\* headers for every cookie set on the response so far, and a cookie the
\* next-stage handler sets itself is not propagated.
C15_PropagateOnceBeforeForward ==
    \A r \in Reqs :
        ReachedForward(r) =>
            /\ Count(r, "applyCookiesOnNextResponse") = 1
            /\ \A i \in Calls(r, "applyCookiesOnNextResponse") :
                  /\ \A j \in Calls(r, "onSuccess") \cup Calls(r, "onError") : j < i
                  /\ \A j \in Calls(r, "middlewareFn") : j = i + 1
                  /\ log[r][i].res = resOf[r]
            /\ LET fwd == ForwardedHeaders(r)
               IN \A n \in Names(ResponseCookiesGetAll(fwd)) :
                     /\ n \in Names(RewrittenCookies(fwd))
                     /\ MapGet(RewrittenCookies(fwd), n)
                            = MapGet(ResponseCookiesGetAll(fwd), n)
            /\ ch[r].mw = "setCookie" =>
                  /\ "mw" \in Names(ResponseCookiesGetAll(heap[resOf[r]]))
                  /\ "mw" \notin Names(RewrittenCookies(heap[resOf[r]]))

C15_Witness ==
    \E r \in Reqs :
        /\ ReachedForward(r)
        /\ ch[r].os = "setBoth"
        /\ ch[r].mw = "setCookie"
        /\ reqH[r] # EmptyHeaders
        /\ MapGet(RewrittenCookies(ForwardedHeaders(r)), "access-token")
               = ch[r].tp.accessToken

\* C16: fetchTokenPair is invoked exactly once in an invocation where
\* shouldRefresh returned true and never otherwise, also after it failed (no
\* retry), and shouldRefresh is evaluated exactly once per invocation, first.
C16_OneFetchNoRetry ==
    \A r \in Reqs :
        pc[r] # "idle" =>
            /\ Count(r, "shouldRefresh") = 1
            /\ log[r][1].fn = "shouldRefresh"
            /\ Count(r, "fetchTokenPair") = (IF ch[r].sr = "true" THEN 1 ELSE 0)
            /\ \A i \in Calls(r, "fetchTokenPair") : i = 2

C16_Witness ==
    \E r, q \in Reqs :
        /\ ch[r].fs = "reject" /\ Ended(r) /\ Count(r, "fetchTokenPair") = 1
        /\ ch[q].sr = "false" /\ Ended(q) /\ Count(q, "fetchTokenPair") = 0

\* An invocation is suspended only at `await fetchTokenPair(req)`: it has
\* called fetchTokenPair last and produced no result.
SuspendedAtTheAwait(r) ==
    pc[r] = "awaiting" =>
        /\ out[r] = NoOut
        /\ Len(log[r]) = 2
        /\ log[r][2].fn = "fetchTokenPair"
        /\ ch[r].fs = "-"

\* One step of invocation r: a suspended invocation ends when it resumes, an
\* ended one does nothing more.
OnePass(r) ==
    /\ pc[r] = "idle" => pc'[r] \in {"idle", "awaiting", "returned", "threw"}
    /\ pc[r] = "awaiting" =>
          \/ pc'[r] \in {"returned", "threw"}
          \/ pc'[r] = "awaiting" /\ log'[r] = log[r]
    /\ Ended(r) => pc'[r] = pc[r] /\ log'[r] = log[r] /\ out'[r] = out[r]

\* C17: every invocation is one pass that ends: it is suspended at no point
\* other than the await on fetchTokenPair, resuming ends it, an ended
\* invocation stays ended, and, the awaited promise settling, a suspended
\* invocation eventually returns a response or throws.
C17_OnePassEnds ==
    /\ [](\A r \in Reqs : SuspendedAtTheAwait(r))
    /\ [][\A r \in Reqs : OnePass(r)]_vars
    /\ \A r \in Reqs : (pc[r] = "awaiting") ~> Ended(r)

C17_Witness ==
    \E r, q \in Reqs :
        /\ pc[r] = "returned" /\ ch[r].fs = "resolve"
        /\ pc[q] = "threw" /\ ch[q].fs = "reject"

\* C18: the request is read-only for the composer and the Cookie Propagator:
\* no step changes the headers (cookies included) a request arrived with.
C18_RequestReadOnly == [][\A r \in Reqs : reqH'[r] = reqH[r]]_vars

C18_Witness ==
    \E r \in Reqs :
        /\ ReachedForward(r)
        /\ cfg.middlewareFn
        /\ ch[r].os = "setBoth"
        /\ "cookie" \in DOMAIN reqH[r]
        /\ heap[resOf[r]]["x-middleware-request-cookie"] # reqH[r]["cookie"]
        /\ reqH[r]["cookie"] = << <<"access-token", "AT1">>, <<"a", "1">> >>

-----------------------------------------------------------------------------
(* Further properties of applyCookiesOnNextResponse *)

\* C19: applyCookiesOnNextResponse is idempotent: applied a second time to
\* the same request and response, it leaves the response's headers as the
\* first application left them.
C19_Idempotent ==
    [][aPhase = "once" /\ aPhase' = "twice" => aRes' = aRes]_vars

C19_Witness ==
    /\ aPhase = "twice"
    /\ aRes # aIn.res
    /\ "set-cookie" \in DOMAIN aIn.res
    /\ "cookie" \in DOMAIN aIn.req
    /\ OverrideHeaders \in DOMAIN aIn.res

====
